---- MODULE Spec2Model ----
(***************************************************************************)
(* Model of streamlit_app_prototipo_pobreza.py: the pipeline that the      *)
(* COMPARADOR tab runs on an uploaded spreadsheet:                         *)
(*   read_excel -> match_columns -> validate_dataframe -> peru_total ->    *)
(*   scope selection -> gap computation (with the tab's except handler).   *)
(*                                                                         *)
(* Representation.                                                         *)
(*  - A Python str is a sequence of one-character strings; the combining   *)
(*    marks U+0301 and U+0303 are the tokens "U+0301" and "U+0303".        *)
(*  - A number is an integer count of quarters (Num(1) = 4), so that       *)
(*    2019.5 and pov * 0.5 are exact: half of Num(45) is 90, that is 22.5. *)
(*  - A cell is [k, n, s]: k = "num" (a number n), "str" (a text s) or     *)
(*    "null" (an empty cell, NaN, <NA>).                                   *)
(*  - A DataFrame is [cols, rows]: the column labels in order, and the     *)
(*    rows, each a sequence of cells aligned with cols.                    *)
(***************************************************************************)
EXTENDS Integers, Sequences, FiniteSets, TLC

VARIABLES pc, raw, mapping, df, ok, msgs, total, region_sel, outcome, exc, result

vars == <<pc, raw, mapping, df, ok, msgs, total, region_sel, outcome, exc, result>>

(***************************************************************************)
(* Bounds of the enumerated uploads.                                       *)
(***************************************************************************)
MaxCols == 2
MaxExtra == 1
MaxRows == 2

(***************************************************************************)
(* Generic helpers on sequences.                                           *)
(***************************************************************************)
Range(q) == {q[i] : i \in DOMAIN q}

Max(S) == CHOOSE x \in S : \A y \in S : y <= x

Min(S) == CHOOSE x \in S : \A y \in S : x <= y

RECURSIVE Concat(_)
Concat(qq) == IF qq = <<>> THEN <<>> ELSE Head(qq) \o Concat(Tail(qq))

RECURSIVE SortedSeq(_)
SortedSeq(S) == IF S = {} THEN <<>> ELSE <<Min(S)>> \o SortedSeq(S \ {Min(S)})

RECURSIVE SumSeq(_)
SumSeq(q) == IF q = <<>> THEN 0 ELSE Head(q) + SumSeq(Tail(q))

(***************************************************************************)
(* Text Normalizer: normalize_str.                                         *)
(***************************************************************************)
UpperChars == <<"A","B","C","D","E","F","G","H","I","J","K","L","M","N","O","P","Q","R","S","T","U","V","W","X","Y","Z","Ñ","Ó","Í","É","Ú","Á">>

LowerChars == <<"a","b","c","d","e","f","g","h","i","j","k","l","m","n","o","p","q","r","s","t","u","v","w","x","y","z","ñ","ó","í","é","ú","á">>

Whitespace == {" ", "\t"}

lower_char(c) ==
    IF \E i \in DOMAIN UpperChars : UpperChars[i] = c
    THEN LowerChars[CHOOSE i \in DOMAIN UpperChars : UpperChars[i] = c]
    ELSE c

lower(s) == [i \in DOMAIN s |-> lower_char(s[i])]

RECURSIVE lstrip(_)
lstrip(s) == IF s # <<>> /\ Head(s) \in Whitespace THEN lstrip(Tail(s)) ELSE s

RECURSIVE rstrip(_)
rstrip(s) ==
    IF s # <<>> /\ s[Len(s)] \in Whitespace THEN rstrip(SubSeq(s, 1, Len(s) - 1)) ELSE s

strip(s) == rstrip(lstrip(s))

\* unicodedata.normalize('NFD', c) of one character: the canonical decomposition.
NFD_char(c) ==
    CASE c = "ñ" -> <<"n", "U+0303">>
      [] c = "Ñ" -> <<"N", "U+0303">>
      [] c = "á" -> <<"a", "U+0301">>
      [] c = "é" -> <<"e", "U+0301">>
      [] c = "í" -> <<"i", "U+0301">>
      [] c = "ó" -> <<"o", "U+0301">>
      [] c = "ú" -> <<"u", "U+0301">>
      [] c = "Á" -> <<"A", "U+0301">>
      [] c = "É" -> <<"E", "U+0301">>
      [] c = "Í" -> <<"I", "U+0301">>
      [] c = "Ó" -> <<"O", "U+0301">>
      [] c = "Ú" -> <<"U", "U+0301">>
      [] OTHER -> <<c>>

NFD(s) == Concat([i \in DOMAIN s |-> NFD_char(s[i])])

\* unicodedata.category(c) == 'Mn'
IsMn(c) == c \in {"U+0301", "U+0303"}

RECURSIVE DropMn(_)
DropMn(s) ==
    IF s = <<>> THEN <<>>
    ELSE IF IsMn(Head(s)) THEN DropMn(Tail(s))
    ELSE <<Head(s)>> \o DropMn(Tail(s))

\* A plausible slip: accents removed but case kept.
normalize_str_no_lower(s) == DropMn(NFD(strip(s)))

normalize_str(s) == DropMn(NFD(lower(strip(s))))

(***************************************************************************)
(* Column Synonym Table: COL_SYNONYMS (an insertion-ordered dict) and      *)
(* REQUIRED_COLS.                                                          *)
(***************************************************************************)
s_region == <<"r","e","g","i","o","n">>
s_nombre == <<"n","o","m","b","r","e">>
s_departamento == <<"d","e","p","a","r","t","a","m","e","n","t","o">>
s_dpto == <<"d","p","t","o">>
s_ambito == <<"a","m","b","i","t","o">>
s_anio == <<"a","n","i","o">>
s_ano == <<"a","n","o">>
s_anho == <<"a","ñ","o">>
s_year == <<"y","e","a","r">>
s_periodo == <<"p","e","r","i","o","d","o">>
s_nvpov == <<"n","v","p","o","v">>
s_no_pobres_no_vulnerables_sp == <<"n","o"," ","p","o","b","r","e","s"," ","n","o"," ","v","u","l","n","e","r","a","b","l","e","s">>
s_no_pobres_no_vulnerables == <<"n","o","_","p","o","b","r","e","s","_","n","o","_","v","u","l","n","e","r","a","b","l","e","s">>
s_vpov == <<"v","p","o","v">>
s_no_pobres_vulnerables_sp == <<"n","o"," ","p","o","b","r","e","s"," ","v","u","l","n","e","r","a","b","l","e","s">>
s_no_pobres_vulnerables == <<"n","o","_","p","o","b","r","e","s","_","v","u","l","n","e","r","a","b","l","e","s">>
s_pov == <<"p","o","v">>
s_pobres == <<"p","o","b","r","e","s">>
s_pobreza == <<"p","o","b","r","e","z","a">>
s_num_pobrez == <<"n","u","m"," ","p","o","b","r","e","z">>
s_epov == <<"e","p","o","v">>
s_pobreza_extrema == <<"p","o","b","r","e","z","a"," ","e","x","t","r","e","m","a">>
s_extrema_pobreza == <<"e","x","t","r","e","m","a","_","p","o","b","r","e","z","a">>

COL_SYNONYMS == <<
    [target |-> s_region, syns |-> <<s_region, s_nombre, s_departamento, s_dpto, s_ambito>>],
    [target |-> s_year,   syns |-> <<s_anio, s_ano, s_anho, s_year, s_periodo>>],
    [target |-> s_nvpov,  syns |-> <<s_nvpov, s_no_pobres_no_vulnerables_sp, s_no_pobres_no_vulnerables>>],
    [target |-> s_vpov,   syns |-> <<s_vpov, s_no_pobres_vulnerables_sp, s_no_pobres_vulnerables>>],
    [target |-> s_pov,    syns |-> <<s_pov, s_pobres, s_pobreza, s_num_pobrez>>],
    [target |-> s_epov,   syns |-> <<s_epov, s_pobreza_extrema, s_extrema_pobreza>>] >>

REQUIRED_COLS == <<s_region, s_year, s_nvpov, s_vpov, s_pov, s_epov>>

NUMERIC_COLS == <<s_nvpov, s_vpov, s_pov, s_epov>>

(***************************************************************************)
(* Column Resolver: match_columns.                                         *)
(***************************************************************************)
\* Line 64, {normalize_str(c): c for c in df.columns}: a dict from normalized
\* name to raw label; a later column with the same normalized name overwrites
\* the earlier one.
RECURSIVE cols_norm(_)
cols_norm(cols) ==
    IF cols = <<>> THEN <<>>
    ELSE LET n == Len(cols)
         IN  (normalize_str(cols[n]) :> cols[n]) @@ cols_norm(SubSeq(cols, 1, n - 1))

\* A plausible slip: the synonyms tried from the last declared to the first.
found_last_synonym(syns, cn) ==
    LET hit == {j \in DOMAIN syns : syns[j] \in DOMAIN cn}
    IN  IF hit = {} THEN <<>> ELSE <<cn[syns[Max(hit)]]>>

\* Lines 66-70, the inner loop of match_columns: the column of the first
\* synonym, in declaration order, that is a key of cols_norm; <<>> is None.
found(syns, cn) ==
    LET hit == {j \in DOMAIN syns : syns[j] \in DOMAIN cn}
    IN  IF hit = {} THEN <<>> ELSE <<cn[syns[Min(hit)]]>>

\* Lines 65-72, the dict `mapping` after the first k entries of COL_SYNONYMS:
\* from raw labels to canonical names (mapping[found] = target overwrites).
RECURSIVE build_mapping(_, _)
build_mapping(cn, k) ==
    IF k = 0 THEN <<>>
    ELSE LET f == found(COL_SYNONYMS[k].syns, cn)
         IN  IF f = <<>> THEN build_mapping(cn, k - 1)
             ELSE (f[1] :> COL_SYNONYMS[k].target) @@ build_mapping(cn, k - 1)

\* Lines 63-72: the mapping match_columns builds for the labels cols.
column_mapping(cols) == build_mapping(cols_norm(cols), Len(COL_SYNONYMS))

\* Line 73, df.rename(columns=mapping): every label that is a key is replaced.
rename(d, m) ==
    [cols |-> [i \in DOMAIN d.cols |->
                  IF d.cols[i] \in DOMAIN m THEN m[d.cols[i]] ELSE d.cols[i]],
     rows |-> d.rows]

match_columns(d) == rename(d, column_mapping(d.cols))

(***************************************************************************)
(* Numbers and cells.                                                      *)
(***************************************************************************)
\* The number n, in quarters.
Num(n) == 4 * n

\* Whether the number x (in quarters) is an integer.
IsWhole(x) == x % 4 = 0

NumCell(x) == [k |-> "num", n |-> x, s |-> <<>>]

StrCell(t) == [k |-> "str", n |-> 0, s |-> t]

\* An empty cell: NaN in a float column, <NA> in an Int64 column.
Null == [k |-> "null", n |-> 0, s |-> <<>>]

Digits == <<"0","1","2","3","4","5","6","7","8","9">>

IsDigit(c) == \E i \in DOMAIN Digits : Digits[i] = c

DigitVal(c) == (CHOOSE i \in DOMAIN Digits : Digits[i] = c) - 1

RECURSIVE DigitsVal(_)
DigitsVal(s) ==
    IF s = <<>> THEN 0 ELSE 10 * DigitsVal(SubSeq(s, 1, Len(s) - 1)) + DigitVal(s[Len(s)])

RECURSIVE Pow10(_)
Pow10(n) == IF n = 0 THEN 1 ELSE 10 * Pow10(n - 1)

AllDigits(s) == s # <<>> /\ \A i \in DOMAIN s : IsDigit(s[i])

\* The parse pd.to_numeric makes of a text: <<x>> when the text is a decimal
\* numeral [-]digits[.digits] (x in quarters; exact for fractions .0, .25,
\* .5, .75, the only ones the uploads hold), <<>> when it is not a number.
ParseNumber(s) ==
    LET neg  == s # <<>> /\ Head(s) = "-"
        body == IF neg THEN Tail(s) ELSE s
        dots == {i \in DOMAIN body : body[i] = "."}
        ip   == IF dots = {} THEN body ELSE SubSeq(body, 1, Min(dots) - 1)
        fp   == IF dots = {} THEN <<>> ELSE SubSeq(body, Min(dots) + 1, Len(body))
        wf   == AllDigits(ip) /\ Cardinality(dots) <= 1 /\ (dots # {} => AllDigits(fp))
        mag  == 4 * DigitsVal(ip) + (4 * DigitsVal(fp)) \div Pow10(Len(fp))
    IN  IF ~wf THEN <<>> ELSE IF neg THEN <<0 - mag>> ELSE <<mag>>

\* A plausible slip: errors='ignore' semantics, the bad cell is kept.
to_numeric_cell_keep(c) ==
    IF c.k = "str" /\ ParseNumber(c.s) # <<>> THEN NumCell(ParseNumber(c.s)[1]) ELSE c

\* pd.to_numeric(..., errors='coerce') on one cell: a number stays, a numeral
\* is parsed, anything else becomes NaN.
to_numeric_cell(c) ==
    CASE c.k = "num" -> c
      [] c.k = "str" -> IF ParseNumber(c.s) = <<>> THEN Null ELSE NumCell(ParseNumber(c.s)[1])
      [] OTHER -> Null

\* str(x) of one cell of the region column (astype(str)); the region cells of
\* the uploads are texts or empty cells.
astype_str_cell(c) ==
    CASE c.k = "str" -> c
      [] c.k = "null" -> StrCell(<<"n","a","n">>)

(***************************************************************************)
(* DataFrame access.                                                       *)
(***************************************************************************)
\* The positions of the columns labelled c.
Idx(d, c) == {i \in DOMAIN d.cols : d.cols[i] = c}

\* d[c] is a DataFrame, not a Series, when the label is duplicated.
IsFrame(d, c) == Cardinality(Idx(d, c)) > 1

\* The cell of row r in the (first) column labelled c.
Cell(d, r, c) == d.rows[r][Min(Idx(d, c))]

\* d[c] = pd.to_numeric(d[c], errors='coerce'), for a label that names one
\* column.
to_numeric_col(d, c) ==
    [cols |-> d.cols,
     rows |-> [r \in DOMAIN d.rows |->
                 [i \in DOMAIN d.cols |->
                    IF d.cols[i] = c THEN to_numeric_cell(d.rows[r][i]) ELSE d.rows[r][i]]]]

\* d[c] = d[c].astype(str), on every column labelled c.
astype_str_col(d, c) ==
    [cols |-> d.cols,
     rows |-> [r \in DOMAIN d.rows |->
                 [i \in DOMAIN d.cols |->
                    IF d.cols[i] = c THEN astype_str_cell(d.rows[r][i]) ELSE d.rows[r][i]]]]

\* The distinct values of d[c].dropna().unique().
NonNull(d, c) == {Cell(d, r, c) : r \in DOMAIN d.rows} \ {Null}

(***************************************************************************)
(* Schema Validator: validate_dataframe.                                   *)
(***************************************************************************)
MissingMsg(c) == [text |-> "Falta la columna obligatoria", col |-> c]

YearMsg == [text |-> "La columna debe ser numérica (2019-2023).", col |-> s_year]

NumericMsg(c) == [text |-> "La columna debe ser numérica (conteo de personas).", col |-> c]

CoverageMsg == [text |-> "Advertencia: se esperaban años 2019-2023 en el panel.", col |-> <<>>]

\* A plausible slip: the loop stops at the first absent column.
missing_msgs_first_only(d) ==
    LET absent(c) == c \notin Range(d.cols)
    IN  IF SelectSeq(REQUIRED_COLS, absent) = <<>> THEN <<>>
        ELSE <<MissingMsg(SelectSeq(REQUIRED_COLS, absent)[1])>>

\* Lines 80-83: one message per absent required column, in REQUIRED_COLS order.
missing_msgs(d) ==
    LET absent(c) == c \notin Range(d.cols)
    IN  [i \in DOMAIN SelectSeq(REQUIRED_COLS, absent) |->
            MissingMsg(SelectSeq(REQUIRED_COLS, absent)[i])]

\* Line 88 raises (and line 89 catches) when df['year'] is a DataFrame
\* (pd.to_numeric: TypeError) or when a coerced value is not an integer
\* (astype('Int64'): TypeError, cannot safely cast).
year_coercion_fails(d) ==
    \/ IsFrame(d, s_year)
    \/ \E r \in DOMAIN d.rows :
          LET c == to_numeric_cell(Cell(d, r, s_year))
          IN  c.k = "num" /\ ~IsWhole(c.n)

\* A plausible slip: errors='raise' semantics, one bad cell fails the column.
numeric_coercion_fails_on_bad_cell(d, c) ==
    \/ IsFrame(d, c)
    \/ \E r \in DOMAIN d.rows :
          Cell(d, r, c).k = "str" /\ ParseNumber(Cell(d, r, c).s) = <<>>

\* Line 95 raises (and line 96 catches) when df[c] is a DataFrame.
numeric_coercion_fails(d, c) == IsFrame(d, c)

\* Lines 87-91.
coerce_year(d) == IF year_coercion_fails(d) THEN d ELSE to_numeric_col(d, s_year)

\* Lines 93-98, for the first k columns of NUMERIC_COLS.
RECURSIVE coerce_numeric(_, _)
coerce_numeric(d, k) ==
    IF k = 0 THEN d
    ELSE LET p == coerce_numeric(d, k - 1)
         IN  IF numeric_coercion_fails(p, NUMERIC_COLS[k]) THEN p
             ELSE to_numeric_col(p, NUMERIC_COLS[k])

\* Line 100.
coerce_region(d) == astype_str_col(d, s_region)

\* The messages of lines 87-98, in order.
coercion_msgs(d) ==
    (IF year_coercion_fails(d) THEN <<YearMsg>> ELSE <<>>)
    \o Concat([k \in DOMAIN NUMERIC_COLS |->
                 IF numeric_coercion_fails(d, NUMERIC_COLS[k])
                 THEN <<NumericMsg(NUMERIC_COLS[k])>> ELSE <<>>])

\* Lines 102-103 raise: df['year'] is a DataFrame (no attribute unique:
\* AttributeError), or the year column was left uncoerced and holds a text
\* (sorted() of texts and numbers, or years[0] > 2019 on a text: TypeError).
years_check_raises(d) ==
    \/ IsFrame(d, s_year)
    \/ \E c \in NonNull(d, s_year) : c.k = "str"

\* Line 103, on a year column of numbers.
coverage_warning(d) ==
    LET years == {c.n : c \in NonNull(d, s_year)}
    IN  years = {} \/ Min(years) > Num(2019) \/ Max(years) < Num(2023)

\* The exception of lines 100-103, as st.exception shows it.
validate_exception(d, frame_setitem_raises) ==
    LET nn == NonNull(d, s_year)
    IN  CASE IsFrame(d, s_region) /\ frame_setitem_raises -> [type |-> "ValueError", line |-> 100]
          [] IsFrame(d, s_year) -> [type |-> "AttributeError", line |-> 102]
          [] (\E c \in nn : c.k = "str") /\ (\E c \in nn : c.k = "num") ->
                 [type |-> "TypeError", line |-> 102]
          [] OTHER -> [type |-> "TypeError", line |-> 103]

\* validate_dataframe(df) -> [raised, exc, ok, msgs, df]: df is mutated in
\* place. frame_setitem_raises: whether line 100 raises when df['region'] is
\* a DataFrame (assigning a frame to a duplicated label depends on the pandas
\* version).
validate_dataframe(d, frame_setitem_raises) ==
    LET mm == missing_msgs(d)
        no == [type |-> "", line |-> 0]
    IN  IF mm # <<>>
        THEN [raised |-> FALSE, exc |-> no, ok |-> FALSE, msgs |-> mm, df |-> d]
        ELSE
        LET d1  == coerce_numeric(coerce_year(d), Len(NUMERIC_COLS))
            cm  == coercion_msgs(d)
            ok1 == cm = <<>>
        IN  IF IsFrame(d, s_region) /\ frame_setitem_raises
            THEN [raised |-> TRUE, exc |-> validate_exception(d1, TRUE),
                  ok |-> ok1, msgs |-> cm, df |-> d1]
            ELSE
            LET d2 == coerce_region(d1)
            IN  IF years_check_raises(d2)
                THEN [raised |-> TRUE, exc |-> validate_exception(d2, FALSE),
                      ok |-> ok1, msgs |-> cm, df |-> d2]
                ELSE [raised |-> FALSE, exc |-> no, ok |-> ok1,
                      msgs |-> IF coverage_warning(d2) THEN Append(cm, CoverageMsg) ELSE cm,
                      df |-> d2]

(***************************************************************************)
(* Aggregator: peru_total.                                                 *)
(***************************************************************************)
s_national == <<"P","e","r","ú"," ","(","s","u","m","a"," ","n","a","c","i","o","n","a","l",")">>

\* The non-null years of the (coerced) year column.
years_of(d) == {c.n : c \in NonNull(d, s_year)}

\* A plausible slip: sum(skipna=False), a null cell makes the sum null.
group_sum_strict(d, y, c) ==
    LET rs == {r \in DOMAIN d.rows : Cell(d, r, s_year) = NumCell(y)}
    IN  IF \E r \in rs : Cell(d, r, c).k # "num" THEN Null
        ELSE NumCell(SumSeq([r \in DOMAIN d.rows |->
                 IF r \in rs THEN Cell(d, r, c).n ELSE 0]))

\* GroupBy.sum of column c over the rows whose year is y: NaN cells are
\* skipped (they add nothing), and a group of NaN only sums to 0.
group_sum(d, y, c) ==
    NumCell(SumSeq([r \in DOMAIN d.rows |->
        IF Cell(d, r, s_year) = NumCell(y) /\ Cell(d, r, c).k = "num"
        THEN Cell(d, r, c).n ELSE 0]))

\* df.groupby('year', as_index=False)[[...]].sum() with the region column
\* inserted first: the groups are the non-null years, in ascending order.
peru_total(d) ==
    LET ys == SortedSeq(years_of(d))
    IN  [cols |-> REQUIRED_COLS,
         rows |-> [i \in DOMAIN ys |->
                     <<StrCell(s_national), NumCell(ys[i])>>
                     \o [k \in DOMAIN NUMERIC_COLS |-> group_sum(d, ys[i], NUMERIC_COLS[k])]]]

(***************************************************************************)
(* Target Comparator: lines 265-306 of the COMPARADOR tab.                 *)
(***************************************************************************)
\* Line 265: the entries of the scope selectbox (the national total and the
\* distinct region texts).
regiones2(d) == {s_national} \cup {Cell(d, r, s_region).s : r \in DOMAIN d.rows}

\* x * 0.5 on a float: NaN stays NaN.
times_half(c) == IF c.k = "num" THEN NumCell(c.n \div 2) ELSE Null

\* a - b on floats.
minus(a, b) == IF a.k = "num" /\ b.k = "num" THEN NumCell(a.n - b.n) ELSE Null

\* Python's max(a, b): a, unless b > a; every comparison with NaN is False.
py_max(a, b) == IF a.k = "num" /\ b.k = "num" /\ b.n > a.n THEN b ELSE a

\* Lines 275-278.
base_view(d, tot, sel) ==
    IF sel = s_national THEN tot
    ELSE [cols |-> d.cols,
          rows |-> SelectSeq(d.rows,
                     LAMBDA row : row[Min(Idx(d, s_region))] = StrCell(sel))]

\* A plausible slip: the reference year taken as the latest year of the
\* selected scope instead of the latest year of the whole table.
last_rows_of_scope(d, tot, sel) ==
    LET bv == base_view(d, tot, sel)
        ys == {row[Min(Idx(bv, s_year))].n : row \in Range(bv.rows)}
        nn == {row \in Range(bv.rows) : row[Min(Idx(bv, s_year))].k = "num"}
    IN  IF nn = {} THEN <<>>
        ELSE SelectSeq(bv.rows,
                LAMBDA row : row[Min(Idx(bv, s_year))]
                             = NumCell(Max({w[Min(Idx(bv, s_year))].n : w \in nn})))

\* The rows of base_view[base_view['year'] == last_year2].
last_rows(d, tot, sel) ==
    LET bv == base_view(d, tot, sel)
    IN  SelectSeq(bv.rows,
            LAMBDA row : row[Min(Idx(bv, s_year))] = NumCell(Max(years_of(d))))

\* Lines 270-271 raise on an empty year list (max([]): ValueError); line 280
\* raises when no row of the scope has the reference year (iloc[0]: IndexError).
compare_raises(d, tot, sel) ==
    IF years_of(d) = {} THEN TRUE ELSE last_rows(d, tot, sel) = <<>>

compare_exception(d, tot, sel) ==
    IF years_of(d) = {} THEN [type |-> "ValueError", line |-> 271]
    ELSE [type |-> "IndexError", line |-> 280]

\* Lines 280-306 on the reference-year row: the values the tab shows.
gaps_of_row(bv, base_last) ==
    LET pov        == base_last[Min(Idx(bv, s_pov))]
        epov       == base_last[Min(Idx(bv, s_epov))]
        target_epov == NumCell(0)
        target_pov == times_half(pov)
    IN  [year      |-> base_last[Min(Idx(bv, s_year))],
         pov       |-> pov,
         epov      |-> epov,
         gapA      |-> py_max(minus(epov, target_epov), NumCell(0)),
         targetPov |-> target_pov,
         gapB      |-> py_max(minus(pov, target_pov), NumCell(0))]

gaps(d, tot, sel) == gaps_of_row(base_view(d, tot, sel), last_rows(d, tot, sel)[1])

(***************************************************************************)
(* The uploads: what pd.read_excel(uploaded) can return.                   *)
(***************************************************************************)
h_Anho == <<"A","ñ","o">>
h_ANIO == <<"A","N","I","O">>
h_Year == <<"Y","e","a","r">>
h_Periodo == <<"P","e","r","i","o","d","o">>
h_Departamento == <<"D","e","p","a","r","t","a","m","e","n","t","o">>
h_REGION == <<"R","E","G","I","O","N">>
h_Region_padded == <<" ","R","e","g","i","ó","n"," ">>
h_Pov == <<"P","o","v">>
h_POV == <<"P","O","V">>
h_Notas == <<"N","o","t","a","s">>

HeaderPool ==
    { h_Anho, h_ANIO, s_ano, s_year, h_Year, h_Periodo, h_Departamento, s_region,
      h_REGION, h_Region_padded, h_Pov, h_POV, s_pobreza, h_Notas }

ScenarioHeaders ==
    << h_Departamento, h_Periodo, s_no_pobres_no_vulnerables,
       s_no_pobres_vulnerables, s_pobreza, s_extrema_pobreza >>

\* The sequences of at most n pairwise distinct elements of S.
RECURSIVE DistinctSeqs(_, _)
DistinctSeqs(S, n) ==
    IF n = 0 THEN {<<>>}
    ELSE LET P == DistinctSeqs(S, n - 1)
         IN  P \cup UNION { {Append(q, x) : x \in S \ Range(q)} :
                               q \in {p \in P : Len(p) = n - 1} }

t_Lima == <<"L","i","m","a">>
t_Cusco == <<"C","u","s","c","o">>
t_abc == <<"a","b","c">>
t_2023 == <<"2","0","2","3">>
t_2019_5 == <<"2","0","1","9",".","5">>
t_12 == <<"1","2">>

N(n) == NumCell(Num(n))

ScenarioRows ==
    << <<StrCell(t_Lima),  N(2019), N(100), N(50), N(30), N(10)>>,
       <<StrCell(t_Lima),  N(2023), N(90),  N(40), N(20), N(5)>>,
       <<StrCell(t_Cusco), N(2023), N(60),  N(30), N(25), N(8)>> >>

\* Rows under the headers region, year, nvpov, vpov, pov, epov: clean rows,
\* and rows with empty cells, texts, numerals typed as text, a negative
\* count, a fractional year and a year outside 2019-2023.
RowPool ==
    Range(ScenarioRows) \cup
    { <<StrCell(t_Cusco), N(2023), N(60), N(30), StrCell(t_abc), Null>>,
      <<StrCell(t_Lima),  StrCell(t_2023), StrCell(t_12), Null, N(20), N(0 - 3)>>,
      <<StrCell(t_Lima),  N(2023), Null, StrCell(t_abc), Null, StrCell(t_abc)>>,
      <<StrCell(t_Cusco), NumCell(Num(2019) + 2), N(1), N(1), N(1), N(1)>>,
      <<StrCell(t_Cusco), StrCell(t_2019_5), N(1), N(1), N(1), N(1)>>,
      <<StrCell(t_Lima),  StrCell(t_abc), N(7), N(7), N(7), N(7)>>,
      <<StrCell(t_Cusco), Null, N(3), N(3), N(3), N(3)>>,
      <<Null,             N(2019), N(4), N(4), N(4), N(4)>>,
      <<StrCell(t_Lima),  N(2025), N(9), N(9), N(8), N(2)>> }

\* Two candidates for year and two for pov, the later-declared synonym first
\* and the identically normalized labels side by side.
AmbiguousHeaders == <<h_Periodo, h_Year, h_Pov, h_POV>>

\* A header row of at most MaxCols distinct labels (or the ambiguous one),
\* over one row of numerals typed as text.
ShortTables ==
    { [cols |-> h, rows |-> << [i \in DOMAIN h |-> StrCell(t_2023)] >>] :
        h \in (DistinctSeqs(HeaderPool, MaxCols) \ {<<>>}) \cup {AmbiguousHeaders} }

\* The cell of a further column in row r: a numeral typed as text, or a text.
ExtraCell(r) == IF r = 2 THEN StrCell(t_abc) ELSE StrCell(t_2023)

\* The scenario's rows under the headers pre \o base \o post.
FullTable(base, pre, post) ==
    [cols |-> pre \o base \o post,
     rows |-> [r \in DOMAIN ScenarioRows |->
                 [i \in DOMAIN pre |-> ExtraCell(r)] \o ScenarioRows[r]
                 \o [i \in DOMAIN post |-> ExtraCell(r)]]]

\* The six columns of the scenario, under canonical or synonym headers, with
\* at most MaxExtra further columns, each before or after them.
FullTables ==
    UNION { { FullTable(base, SubSeq(e, 1, k), SubSeq(e, k + 1, Len(e))) : k \in 0..Len(e) } :
              base \in {ScenarioHeaders, REQUIRED_COLS},
              e \in DistinctSeqs(HeaderPool, MaxExtra) }

\* read_excel never returns two equal labels (it renames the second "x" to
\* "x.1"), so the labels of an upload are pairwise distinct.
DistinctLabels(t) == \A i, j \in DOMAIN t.cols : t.cols[i] = t.cols[j] => i = j

DataTables ==
    { [cols |-> REQUIRED_COLS, rows |-> rs] :
        rs \in DistinctSeqs(RowPool, MaxRows) \ {<<>>} }

Uploads ==
    ShortTables
    \cup {t \in FullTables : DistinctLabels(t)}
    \cup DataTables

(***************************************************************************)
(* The run of the COMPARADOR tab on one upload.                            *)
(***************************************************************************)
NoDf == [cols |-> <<>>, rows |-> <<>>]

NoExc == [type |-> "", line |-> 0]

Init ==
    /\ pc = "idle"
    /\ raw = NoDf
    /\ mapping = <<>>
    /\ df = NoDf
    /\ ok = FALSE
    /\ msgs = <<>>
    /\ total = NoDf
    /\ region_sel = <<>>
    /\ outcome = "none"
    /\ exc = NoExc
    /\ result = <<>>

\* Line 257: raw2 = pd.read_excel(uploaded).
Upload ==
    /\ pc = "idle"
    /\ \E t \in Uploads : raw' = t
    /\ pc' = "uploaded"
    /\ UNCHANGED <<mapping, df, ok, msgs, total, region_sel, outcome, exc, result>>

\* Line 258: df2 = match_columns(raw2).
MatchColumns ==
    /\ pc = "uploaded"
    /\ mapping' = column_mapping(raw.cols)
    /\ df' = match_columns(raw)
    /\ pc' = "matched"
    /\ UNCHANGED <<raw, ok, msgs, total, region_sel, outcome, exc, result>>

\* Line 259: ok2, msgs2 = validate_dataframe(df2) returns.
ValidateReturns ==
    /\ pc = "matched"
    /\ \E b \in BOOLEAN :
         LET v == validate_dataframe(df, b)
         IN  /\ ~v.raised
             /\ df' = v.df
             /\ ok' = v.ok
             /\ msgs' = v.msgs
    /\ pc' = "validated"
    /\ UNCHANGED <<raw, mapping, total, region_sel, outcome, exc, result>>

\* Line 259 raises: the handler of lines 309-311 reports the exception.
ValidateRaises ==
    /\ pc = "matched"
    /\ \E b \in BOOLEAN :
         LET v == validate_dataframe(df, b)
         IN  /\ v.raised
             /\ df' = v.df
             /\ exc' = v.exc
    /\ outcome' = "error"
    /\ pc' = "done"
    /\ UNCHANGED <<raw, mapping, ok, msgs, total, region_sel, result>>

\* Lines 260-262: the file is rejected and the messages are listed.
Reject ==
    /\ pc = "validated"
    /\ ~ok
    /\ outcome' = "invalid"
    /\ pc' = "done"
    /\ UNCHANGED <<raw, mapping, df, ok, msgs, total, region_sel, exc, result>>

\* Lines 264-265: the national total and the list of scopes.
Aggregate ==
    /\ pc = "validated"
    /\ ok
    /\ ~IsFrame(df, s_region)
    /\ total' = peru_total(df)
    /\ pc' = "aggregated"
    /\ UNCHANGED <<raw, mapping, df, ok, msgs, region_sel, outcome, exc, result>>

\* Line 265 raises when df2['region'] is a DataFrame (no attribute unique).
AggregateRaises ==
    /\ pc = "validated"
    /\ ok
    /\ IsFrame(df, s_region)
    /\ total' = peru_total(df)
    /\ exc' = [type |-> "AttributeError", line |-> 265]
    /\ outcome' = "error"
    /\ pc' = "done"
    /\ UNCHANGED <<raw, mapping, df, ok, msgs, region_sel, result>>

\* Lines 266-308 for the scope picked in the selectbox: the gaps are shown.
Compare ==
    /\ pc = "aggregated"
    /\ \E sel \in regiones2(df) :
         /\ ~compare_raises(df, total, sel)
         /\ region_sel' = sel
         /\ result' = <<gaps(df, total, sel)>>
    /\ outcome' = "shown"
    /\ pc' = "done"
    /\ UNCHANGED <<raw, mapping, df, ok, msgs, total, exc>>

\* Lines 266-280 raise: the handler of lines 309-311 reports the exception.
CompareRaises ==
    /\ pc = "aggregated"
    /\ \E sel \in regiones2(df) :
         /\ compare_raises(df, total, sel)
         /\ region_sel' = sel
         /\ exc' = compare_exception(df, total, sel)
    /\ outcome' = "error"
    /\ pc' = "done"
    /\ UNCHANGED <<raw, mapping, df, ok, msgs, total, result>>

Next ==
    \/ Upload
    \/ MatchColumns
    \/ ValidateReturns
    \/ ValidateRaises
    \/ Reject
    \/ Aggregate
    \/ AggregateRaises
    \/ Compare
    \/ CompareRaises

Spec == Init /\ [][Next]_vars

(***************************************************************************)
(* Vocabulary of the properties, stated on the upload (raw) and on what    *)
(* the run has produced, not through the operators above.                  *)
(***************************************************************************)
Matched == pc \notin {"idle", "uploaded"}

\* validate_dataframe has returned (ok, msgs).
Validated == pc \in {"validated", "aggregated"} \/ (pc = "done" /\ exc.line \notin {100, 102, 103})

\* validate_dataframe has raised.
ValidateRaised == pc = "done" /\ outcome = "error" /\ exc.line \in {100, 102, 103}

FIELDS == {COL_SYNONYMS[k].target : k \in DOMAIN COL_SYNONYMS}

COERCED_FIELDS == FIELDS \ {s_region}

\* The columns, of normalized names nc, that could satisfy the k-th canonical
\* field.
CandidatesIn(nc, k) ==
    {i \in DOMAIN nc : \E j \in DOMAIN COL_SYNONYMS[k].syns : nc[i] = COL_SYNONYMS[k].syns[j]}

\* The normalized names of the headers cols, in column order.
RECURSIVE NormalizedHeaders(_)
NormalizedHeaders(cols) ==
    IF cols = <<>> THEN <<>>
    ELSE Append(NormalizedHeaders(SubSeq(cols, 1, Len(cols) - 1)),
                normalize_str(cols[Len(cols)]))

\* The raw columns that could satisfy the k-th canonical field.
CandidatesFor(k) == CandidatesIn(NormalizedHeaders(raw.cols), k)

\* The raw columns that mapping sends to the k-th canonical field.
MappedTo(k) ==
    {i \in DOMAIN raw.cols :
        raw.cols[i] \in DOMAIN mapping /\ mapping[raw.cols[i]] = COL_SYNONYMS[k].target}

Positions(c) == {i \in DOMAIN df.cols : df.cols[i] = c}

AllPresent == \A c \in FIELDS : Positions(c) # {}

\* The cell the upload holds in row r of the (first) column now labelled c.
RawCellOf(r, c) == raw.rows[r][CHOOSE i \in Positions(c) : \A j \in Positions(c) : i <= j]

DfCellOf(r, c) == df.rows[r][CHOOSE i \in Positions(c) : \A j \in Positions(c) : i <= j]

\* A cell that holds a number, as a number or as a numeral typed as text.
IsNumeric(cell) == cell.k = "num" \/ (cell.k = "str" /\ ParseNumber(cell.s) # <<>>)

ValueOf(cell) == IF cell.k = "num" THEN cell.n ELSE ParseNumber(cell.s)[1]

\* A cell that fails coercion: a text that is not a numeral.
FailsCoercion(cell) == cell.k = "str" /\ ParseNumber(cell.s) = <<>>

\* The column-level coercion of field c can be performed: the label names one
\* column, and every number of the year column is an integer.
ColumnCoercible(c) ==
    /\ Cardinality(Positions(c)) = 1
    /\ c = s_year =>
          \A r \in DOMAIN raw.rows :
              IsNumeric(RawCellOf(r, c)) => ValueOf(RawCellOf(r, c)) % 4 = 0

IsMissingMsg(m) == m.text = "Falta la columna obligatoria"

\* The position of field c in the declaration order of REQUIRED_COLS.
Rank(c) == CHOOSE i \in DOMAIN REQUIRED_COLS : REQUIRED_COLS[i] = c

(***************************************************************************)
(* C1.  If some raw header, once normalized, equals a declared synonym of  *)
(* a canonical field, match_columns maps exactly one raw column to that    *)
(* field, and that column is one of the candidates; "Año", "ANIO" and      *)
(* "ano" each resolve to year; the scenario's header row resolves to the   *)
(* six canonical names and validation reports no missing column.           *)
(***************************************************************************)
C1_SynonymResolves ==
    Matched =>
      LET nc == NormalizedHeaders(raw.cols) IN
      /\ \A k \in DOMAIN COL_SYNONYMS :
            CandidatesIn(nc, k) # {} =>
              /\ Cardinality(MappedTo(k)) = 1
              /\ MappedTo(k) \subseteq CandidatesIn(nc, k)
              /\ \A i \in MappedTo(k) : df.cols[i] = COL_SYNONYMS[k].target
      /\ \A h \in {h_Anho, h_ANIO, s_ano} :
            (h \in Range(raw.cols)
               /\ \A i \in CandidatesIn(nc, 2) : raw.cols[i] = h)
            => \E i \in DOMAIN raw.cols : raw.cols[i] = h /\ df.cols[i] = s_year
      /\ raw.cols = ScenarioHeaders =>
            /\ df.cols = REQUIRED_COLS
            /\ ~ValidateRaised
            /\ \A i \in DOMAIN msgs : ~IsMissingMsg(msgs[i])

C1_Witness ==
    /\ pc = "validated"
    /\ raw.cols = ScenarioHeaders
    /\ df.cols = REQUIRED_COLS
    /\ ok

(***************************************************************************)
(* C2.  When a required canonical column is absent, validate_dataframe     *)
(* returns isValid = false and its messages are exactly one "missing       *)
(* required column" message per absent field, in REQUIRED_COLS order.      *)
(***************************************************************************)
C2_MissingColumnsReported ==
    (Matched /\ pc # "matched" /\ ~AllPresent) =>
      /\ Validated
      /\ ~ok
      /\ \A i \in DOMAIN msgs : IsMissingMsg(msgs[i]) /\ Positions(msgs[i].col) = {}
      /\ \A c \in FIELDS :
            Positions(c) = {} => Cardinality({i \in DOMAIN msgs : msgs[i].col = c}) = 1
      /\ \A i, j \in DOMAIN msgs : i < j => Rank(msgs[i].col) < Rank(msgs[j].col)

C2_Witness ==
    /\ pc = "validated"
    /\ Positions(s_year) # {}
    /\ Positions(s_region) = {}
    /\ Positions(s_epov) = {}
    /\ Len(msgs) = 5

(***************************************************************************)
(* C3.  On a table with the six required columns whose column-level        *)
(* coercions can all be performed, validate_dataframe returns isValid =    *)
(* true with no structural message, the cells that are not numbers are     *)
(* null and the others hold their numeric values; and it does return when  *)
(* the region label names one column too.                                  *)
(***************************************************************************)
C3_BadCellsBecomeNull ==
    (Matched /\ AllPresent /\ \A c \in COERCED_FIELDS : ColumnCoercible(c)) =>
      /\ ValidateRaised => Cardinality(Positions(s_region)) > 1
      /\ pc = "validated" =>
            /\ ok
            /\ \A i \in DOMAIN msgs : msgs[i] = CoverageMsg
            /\ \A c \in COERCED_FIELDS : \A r \in DOMAIN raw.rows :
                  DfCellOf(r, c) = IF IsNumeric(RawCellOf(r, c))
                                   THEN NumCell(ValueOf(RawCellOf(r, c)))
                                   ELSE Null

C3_Witness ==
    /\ pc = "validated"
    /\ ok
    /\ \E r1, r2 \in DOMAIN raw.rows :
          /\ FailsCoercion(RawCellOf(r1, s_epov))
          /\ DfCellOf(r1, s_epov) = Null
          /\ RawCellOf(r2, s_epov).k = "num"
          /\ DfCellOf(r2, s_epov) = RawCellOf(r2, s_epov)
    /\ \E r \in DOMAIN raw.rows :
          RawCellOf(r, s_year).k = "str" /\ DfCellOf(r, s_year).k = "num"

(***************************************************************************)
(* C4 as claimed.  Whenever a cell of year, nvpov, vpov, pov or epov fails *)
(* coercion, the cell becomes null and a warning message for that field    *)
(* is among the messages validate_dataframe returns.                       *)
(***************************************************************************)
C4_BadCellWarned ==
    (pc = "validated" /\ AllPresent) =>
      \A c \in COERCED_FIELDS : \A r \in DOMAIN raw.rows :
          FailsCoercion(RawCellOf(r, c)) =>
            /\ DfCellOf(r, c) = Null
            /\ \E i \in DOMAIN msgs : msgs[i].col = c

(***************************************************************************)
(* C4 amended.  Whenever a cell of year, nvpov, vpov, pov or epov fails    *)
(* coercion in a column whose column-level coercion is performed, the      *)
(* cell becomes null, no message names that field, and isValid is false    *)
(* only when some column-level coercion cannot be performed.               *)
(***************************************************************************)
C4_BadCellSilentlyNull ==
    (pc = "validated" /\ AllPresent) =>
      /\ \A c \in COERCED_FIELDS : \A r \in DOMAIN raw.rows :
            (FailsCoercion(RawCellOf(r, c)) /\ ColumnCoercible(c)) =>
              /\ DfCellOf(r, c) = Null
              /\ \A i \in DOMAIN msgs : msgs[i].col # c
      /\ ok <=> \A c \in COERCED_FIELDS : ColumnCoercible(c)

C4_Witness ==
    /\ pc = "validated"
    /\ ok
    /\ \E r \in DOMAIN raw.rows :
          /\ FailsCoercion(RawCellOf(r, s_pov))
          /\ DfCellOf(r, s_pov) = Null
    /\ msgs = <<>>

(***************************************************************************)
(* C5.  peru_total returns one row per distinct non-null year, in          *)
(* ascending year order, and each of nvpov, vpov, pov, epov in the row of  *)
(* year Y is the sum of that field over the input rows of year Y, a null   *)
(* cell counting as 0.                                                     *)
(***************************************************************************)
Aggregated == total.cols # <<>>

\* The value of a validated cell in a sum: a null counts as 0.
Contribution(cell) == IF cell.k = "num" THEN cell.n ELSE 0

\* The sum of field c over the rows of the set rs.
RECURSIVE SumOver(_, _)
SumOver(rs, c) ==
    IF rs = {} THEN 0
    ELSE LET r == CHOOSE x \in rs : TRUE
         IN  Contribution(DfCellOf(r, c)) + SumOver(rs \ {r}, c)

RowsOfYear(y) == {r \in DOMAIN df.rows : DfCellOf(r, s_year) = NumCell(y)}

YearsPresent == {DfCellOf(r, s_year).n : r \in {x \in DOMAIN df.rows : DfCellOf(x, s_year).k = "num"}}

C5_NationalTotalIsSum ==
    Aggregated =>
      /\ total.cols = REQUIRED_COLS
      /\ {total.rows[i][2].n : i \in DOMAIN total.rows} = YearsPresent
      /\ \A i, j \in DOMAIN total.rows : i < j => total.rows[i][2].n < total.rows[j][2].n
      /\ \A i \in DOMAIN total.rows :
            /\ total.rows[i][1] = StrCell(s_national)
            /\ total.rows[i][2].k = "num"
            /\ \A k \in DOMAIN NUMERIC_COLS :
                  total.rows[i][2 + k]
                    = NumCell(SumOver(RowsOfYear(total.rows[i][2].n), NUMERIC_COLS[k]))

C5_Witness ==
    /\ pc = "aggregated"
    /\ Len(total.rows) = 2
    /\ \E r1, r2 \in RowsOfYear(Num(2023)) :
          /\ r1 # r2
          /\ DfCellOf(r1, s_pov) = Null
          /\ DfCellOf(r1, s_nvpov).k = "num"
          /\ DfCellOf(r2, s_pov).k = "num"
    /\ \E r \in DOMAIN df.rows : DfCellOf(r, s_year).n = Num(2019) /\ DfCellOf(r, s_year).k = "num"

(***************************************************************************)
(* C6.  For every scope that has a row for the reference year, the tab     *)
(* shows gapA = max(epov - 0, 0), targetPov = pov * 0.5 and gapB =         *)
(* max(pov - targetPov, 0) of that row, and both gaps are non-negative     *)
(* numbers; the scenario's national scope gives pov 45, epov 13, gapA 13,  *)
(* targetPov 22.5 and gapB 22.5.                                           *)
(***************************************************************************)
Shown == pc = "done" /\ outcome = "shown"

IsNonNegativeNumber(cell) == cell.k = "num" /\ cell.n >= 0

C6_GapsAreNonNegative ==
    Shown =>
      /\ IsNonNegativeNumber(result[1].gapA)
      /\ IsNonNegativeNumber(result[1].gapB)
      /\ result[1].gapA.n = (IF result[1].epov.n > 0 THEN result[1].epov.n ELSE 0)
      /\ 2 * result[1].targetPov.n = result[1].pov.n
      /\ result[1].gapB.n = (IF result[1].pov.n > result[1].targetPov.n
                             THEN result[1].pov.n - result[1].targetPov.n ELSE 0)

\* The part of C6 that the code does satisfy: the scenario's values (22.5 is
\* 90 quarters), and the gaps of a reference-year row without null cells.
C6_ScenarioValues ==
    Shown =>
      /\ (raw.rows = ScenarioRows /\ raw.cols = REQUIRED_COLS /\ region_sel = s_national) =>
            /\ result[1].year = N(2023)
            /\ result[1].pov = N(45)
            /\ result[1].epov = N(13)
            /\ result[1].gapA = N(13)
            /\ result[1].targetPov = NumCell(90)
            /\ result[1].gapB = NumCell(90)
      /\ (result[1].pov.k = "num" /\ result[1].epov.k = "num") =>
            /\ IsNonNegativeNumber(result[1].gapA)
            /\ IsNonNegativeNumber(result[1].gapB)

(***************************************************************************)
(* C7.  If the selected scope has no row for the reference year (the       *)
(* latest non-null year of the whole table), the comparison ends in the    *)
(* failure outcome and shows no gap values.                                *)
(***************************************************************************)
Compared == pc = "done" /\ region_sel # <<>>

InScope(r) == region_sel = s_national \/ DfCellOf(r, s_region) = StrCell(region_sel)

ScopeHasReferenceRow ==
    /\ YearsPresent # {}
    /\ \E r \in DOMAIN df.rows :
          InScope(r) /\ DfCellOf(r, s_year) = NumCell(Max(YearsPresent))

C7_NoReferenceRowFails ==
    (Compared /\ ~ScopeHasReferenceRow) => (outcome = "error" /\ result = <<>>)

C7_Witness ==
    /\ Compared
    /\ region_sel = t_Lima
    /\ YearsPresent = {Num(2019), Num(2023)}
    /\ ~ScopeHasReferenceRow
    /\ outcome = "error"
    /\ exc = [type |-> "IndexError", line |-> 280]

(***************************************************************************)
(* C8.  validate_dataframe never raises on a table that holds the six      *)
(* required columns; when the coercion of the year column fails as a       *)
(* whole it returns isValid = false with the message naming year. (Stated  *)
(* here for tables whose labels are pairwise distinct after renaming.)     *)
(***************************************************************************)
YearNotIntegral ==
    \E r \in DOMAIN raw.rows :
        IsNumeric(RawCellOf(r, s_year)) /\ ValueOf(RawCellOf(r, s_year)) % 4 # 0

C8_ValidateNeverRaises ==
    (Matched /\ pc # "matched" /\ AllPresent /\ DistinctLabels(df)) =>
      /\ ~ValidateRaised
      /\ YearNotIntegral => (~ok /\ \E i \in DOMAIN msgs : msgs[i] = YearMsg)

(***************************************************************************)
(* C9 as claimed.  When several raw columns could satisfy the same         *)
(* canonical field, match_columns maps the first of them in input column   *)
(* order and leaves the others unmapped.                                   *)
(***************************************************************************)
C9_FirstColumnWins ==
    Matched =>
      LET nc == NormalizedHeaders(raw.cols) IN
      \A k \in DOMAIN COL_SYNONYMS :
          CandidatesIn(nc, k) # {} => MappedTo(k) = {Min(CandidatesIn(nc, k))}

(***************************************************************************)
(* C9 amended.  When several raw columns could satisfy the same canonical  *)
(* field, match_columns maps the column that matches the earliest-declared *)
(* synonym matched by any raw column and, among raw columns with that same *)
(* normalized name, the last in input column order; every other candidate  *)
(* is left unmapped and keeps its raw label.                               *)
(***************************************************************************)
\* The declaration rank of the synonym that raw column i matches for field k.
SynonymRank(nc, k, i) ==
    CHOOSE j \in DOMAIN COL_SYNONYMS[k].syns : nc[i] = COL_SYNONYMS[k].syns[j]

Winner(nc, k) ==
    CHOOSE i \in CandidatesIn(nc, k) :
        \A o \in CandidatesIn(nc, k) :
            \/ SynonymRank(nc, k, i) < SynonymRank(nc, k, o)
            \/ (SynonymRank(nc, k, i) = SynonymRank(nc, k, o) /\ o <= i)

C9_EarliestSynonymLastColumnWins ==
    Matched =>
      LET nc == NormalizedHeaders(raw.cols) IN
      \A k \in DOMAIN COL_SYNONYMS :
          CandidatesIn(nc, k) # {} =>
            /\ MappedTo(k) = {Winner(nc, k)}
            /\ \A i \in CandidatesIn(nc, k) \ {Winner(nc, k)} :
                  raw.cols[i] \notin DOMAIN mapping /\ df.cols[i] = raw.cols[i]

C9_Witness ==
    /\ Matched
    /\ raw.cols = AmbiguousHeaders
    /\ CandidatesFor(2) = {1, 2}
    /\ CandidatesFor(5) = {3, 4}
    /\ df.cols = <<h_Periodo, s_year, h_Pov, s_pov>>

(***************************************************************************)
(* C10.  For raw headers that are pairwise distinct, the table returned by *)
(* match_columns has at most one column headed by each canonical name.     *)
(***************************************************************************)
C10_NoDuplicateCanonicalColumn ==
    (Matched /\ DistinctLabels(raw)) =>
      \A c \in FIELDS : Cardinality(Positions(c)) <= 1

====
